---- MODULE Spec2Model ----
(***************************************************************************)
(* State-machine model of the semi-implicit BDF/EXT time integrator        *)
(* SemiImplicitBDF (hydrogym/firedrake/solvers/bdf_ext.py).                *)
(*                                                                         *)
(* Python lists are TLA+ sequences; a Python index i (0-based, negative    *)
(* indices counting from the end) is translated by PyValid / PyGet.        *)
(* Floating point coefficients are modelled as exact rationals <<n, d>>.   *)
(* A velocity field is abstracted to a record [val, src]: val is a scalar  *)
(* standing for the field, src the value of noise_idx when the solve that  *)
(* produced it ran (Seed for the initial condition).                       *)
(***************************************************************************)
EXTENDS Integers, Sequences, FiniteSets, TLC

(* ------------------------------ bounds -------------------------------- *)
\* longest noise schedule
MaxNoise == 5
\* largest step index a caller passes
MaxIter == 5
\* largest final time passed to IPCSSolver.solve, in clock ticks
MaxTf == 5
\* number of IPCSSolver.solve calls explored on one solver
MaxSolves == 2

\* orders a caller may configure (the default of the constructor is 3)
Orders == {-3, -1, 0, 1, 2, 3, 4}
\* stabilization names a caller may pass
StabNames == {"none", "bogus"}
\* time steps a caller may configure
DtSet == {1, 2}
\* control inputs: None, or a list of actuation values (None is modelled
\* by the empty tuple, which no caller passes as a control)
None == <<>>
Controls == {None, <<1>>}
\* velocity values a solve can produce, and the initial condition
SolveVals == {1, 2}
InitVal == 0
Seed == -1
OutOfOrder == -1

(* --------------------------- rational numbers -------------------------- *)
Abs(n) == IF n < 0 THEN -n ELSE n

RECURSIVE Gcd(_, _)
Gcd(a, b) == IF b = 0 THEN a ELSE Gcd(b, a % b)

\* the rational n/d in lowest terms, d > 0
Q(n, d) ==
    LET g == Gcd(Abs(n), Abs(d))
        s == IF d < 0 THEN -1 ELSE 1
    IN  <<(s * n) \div g, (s * d) \div g>>

QAdd(a, b) == Q(a[1] * b[2] + b[1] * a[2], a[2] * b[2])
QMul(a, b) == Q(a[1] * b[1], a[2] * b[2])
QInt(n) == <<n, 1>>

(* ----------------------------- Python lists ---------------------------- *)
PyValid(list, i) == -Len(list) <= i /\ i < Len(list)
PyGet(list, i) == IF i >= 0 THEN list[i + 1] ELSE list[Len(list) + i + 1]
PySet(list, i, v) ==
    LET j == IF i >= 0 THEN i + 1 ELSE Len(list) + i + 1
    IN  [list EXCEPT ![j] = v]

\* zip(a, b): pairs up to the shorter of the two
Zip(a, b) ==
    LET n == IF Len(a) < Len(b) THEN Len(a) ELSE Len(b)
    IN  [i \in 1..n |-> <<a[i], b[i]>>]

\* range(n) as the sequence 0, 1, ..., n-1 (empty for n <= 0)
Range(n) == [i \in 1..(IF n > 0 THEN n ELSE 0) |-> i - 1]

(* -------------------------- coefficient tables ------------------------- *)
_alpha_BDF == <<Q(1, 1), Q(3, 2), Q(11, 6)>>

\* variant: the second BDF2 weight with its sign lost
_beta_BDF_signSlip == <<
    <<Q(1, 1)>>,
    <<Q(2, 1), Q(1, 2)>>,
    <<Q(3, 1), Q(-3, 2), Q(1, 3)>> >>

_beta_BDF == <<
    <<Q(1, 1)>>,
    <<Q(2, 1), Q(-1, 2)>>,
    <<Q(3, 1), Q(-3, 2), Q(1, 3)>> >>

_beta_EXT == <<
    <<Q(1, 1)>>,
    <<Q(2, 1), Q(-1, 1)>>,
    <<Q(3, 1), Q(-3, 1), Q(1, 1)>> >>

(* ------------------------------- state --------------------------------- *)
VARIABLES
    phase,            \* "new", "ready" (constructed) or "failed" (constructor raised)
    initError,        \* the exception the constructor raised, or "none"
    tables,           \* the module-level lists [alpha_BDF, beta_BDF, beta_EXT]
    k,                \* self.k
    stabilization,    \* self.stabilization
    dt,               \* self.dt
    t,                \* self.t
    noise,            \* self.noise
    noise_idx,        \* self.noise_idx
    eta,              \* self.eta
    u_prev,           \* self.u_prev
    q,                \* self.flow.q.subfunctions[0]
    bc,               \* the flow's actuator state / boundary-condition scale
    petsc_solver,     \* self.petsc_solver
    startup_solvers,  \* self.startup_solvers
    run,              \* number of step() calls so far when the caller has passed
                      \* iter = 0, 1, 2, ... in turn, OutOfOrder otherwise
    nOk,              \* number of step() calls that returned
    call,             \* what the last step() call did
    ipcs              \* the IPCSSolver object (hydrogym/ts.py) and its caller

vars == <<phase, initError, tables, k, stabilization, dt, t, noise, noise_idx,
          eta, u_prev, q, bc, petsc_solver, startup_solvers, run, nOk, call,
          ipcs>>

\* self.petsc_solver before initialize_operators has run
NoSolver == [order |-> 0, w |-> <<>>, u_BDF |-> <<>>, alpha |-> <<0, 1>>]

NoCall == [iter |-> -1, control |-> None, outcome |-> "none", order |-> 0,
           events |-> <<>>, pre_t |-> 0, pre_idx |-> 0, pre_u_prev |-> <<>>, pre_bc |-> 0,
           at_solve |-> [eta |-> 0, bc |-> 0, u_prev |-> <<>>, t |-> 0, noise_idx |-> 0]]

\* the velocity and pressure of the flow before any IPCS solve
IpcsField0 == [u |-> <<"u0", -1>>, p |-> <<"p0", -1>>]

\* no IPCSSolver constructed yet
IpcsNew == [pc |-> "new", dt |-> 0, t |-> 0, callbacks |-> <<>>,
            time_varying_bc |-> FALSE,
            u |-> IpcsField0.u, p |-> IpcsField0.p,
            u_n |-> IpcsField0.u, p_n |-> IpcsField0.p,
            Tf |-> 0, num_steps |-> 0, iter |-> 0, steps |-> 0, solves |-> 0,
            log |-> <<>>]

Init ==
    /\ ipcs = IpcsNew
    /\ phase = "new"
    /\ initError = "none"
    /\ tables = [alpha_BDF |-> _alpha_BDF, beta_BDF |-> _beta_BDF,
                 beta_EXT |-> _beta_EXT]
    /\ k = 0
    /\ stabilization = "none"
    /\ dt = 0
    /\ t = 0
    /\ noise = <<>>
    /\ noise_idx = 0
    /\ eta = 0
    /\ u_prev = <<>>
    /\ q = [val |-> InitVal, src |-> Seed]
    /\ bc = 0
    /\ petsc_solver = NoSolver
    /\ startup_solvers = <<>>
    /\ run = 0
    /\ nOk = 0
    /\ call = NoCall

(* ----------------------------- construction ---------------------------- *)
\* the registry of stabilization schemes (hydrogym/firedrake/solvers/stabilization.py)
ns_stabilization == {"none", "supg", "gls"}

\* the pre-generated forcing samples, one distinct value per index
NoiseSchedule(N) == [i \in 1..N |-> 10 + i]

\* initialize_functions: k previous-solution functions, each assigned the
\* current velocity of the flow
initialize_functions(order) ==
    [i \in 1..Len(Range(order)) |-> q]

\* the three table lookups of _make_order_k_solver(kk) succeed
SolverIndexOk(kk) ==
    /\ PyValid(tables.beta_EXT, kk - 1)
    /\ PyValid(tables.beta_BDF, kk - 1)
    /\ PyValid(tables.alpha_BDF, kk - 1)

\* variant: the wind built from the BDF weights instead of the EXT weights
_make_order_k_solver_sameTable(kk, slots) ==
    LET k_idx == kk - 1
    IN  [order |-> kk,
         w     |-> Zip(PyGet(tables.beta_BDF, k_idx), Range(slots)),
         u_BDF |-> Zip(PyGet(tables.beta_BDF, k_idx), Range(slots)),
         alpha |-> PyGet(tables.alpha_BDF, k_idx)]

\* _make_order_k_solver(kk) for a history of `slots` functions: the wind and
\* the BDF combination are symbolic sums over zip(coefficients, u_prev); a
\* term <<beta, i>> stands for beta * u_prev[i] (i a Python index)
_make_order_k_solver(kk, slots) ==
    LET k_idx == kk - 1
    IN  [order |-> kk,
         w     |-> Zip(PyGet(tables.beta_EXT, k_idx), Range(slots)),
         u_BDF |-> Zip(PyGet(tables.beta_BDF, k_idx), Range(slots)),
         alpha |-> PyGet(tables.alpha_BDF, k_idx)]

\* initialize_operators: the order-k solver, then the start-up solvers of
\* orders 1 .. k-1; "IndexError" when a table lookup fails
StartupOrders(order) == IF order > 1 THEN [i \in 1..(order - 1) |-> i] ELSE <<>>

OperatorsOk(order) ==
    /\ SolverIndexOk(order)
    /\ \A i \in 1..Len(StartupOrders(order)) : SolverIndexOk(StartupOrders(order)[i])

\* NavierStokesTransientSolver.__init__ and reset(): store dt and the noise
\* schedule, build functions and operators, zero the clock and the cursor
BaseInit(order, h, N) ==
    /\ dt' = h
    /\ noise' = NoiseSchedule(N)
    /\ t' = 0
    /\ noise_idx' = 0
    /\ eta' = 0
    /\ u_prev' = initialize_functions(order)
    /\ IF OperatorsOk(order)
       THEN /\ petsc_solver' = _make_order_k_solver(order, Len(Range(order)))
            /\ startup_solvers' =
                   [i \in 1..Len(StartupOrders(order)) |->
                       _make_order_k_solver(StartupOrders(order)[i], Len(Range(order)))]
            /\ phase' = "ready"
            /\ initError' = "none"
       ELSE /\ petsc_solver' = NoSolver
            /\ startup_solvers' = <<>>
            /\ phase' = "failed"
            /\ initError' = "IndexError"

\* variant: the stabilization name checked after the base initialization
Construct_checkLast ==
    /\ phase = "new"
    /\ \E order \in Orders, stab \in StabNames, h \in DtSet, N \in 1..MaxNoise :
        /\ k' = order
        /\ stabilization' = stab
        /\ IF stab \notin ns_stabilization
           THEN /\ dt' = h
                /\ noise' = NoiseSchedule(N)
                /\ t' = 0
                /\ noise_idx' = 0
                /\ eta' = 0
                /\ u_prev' = initialize_functions(order)
                /\ petsc_solver' =
                       IF OperatorsOk(order)
                       THEN _make_order_k_solver(order, Len(Range(order)))
                       ELSE NoSolver
                /\ startup_solvers' = <<>>
                /\ phase' = "failed"
                /\ initError' = IF OperatorsOk(order) THEN "ValueError"
                                ELSE "IndexError"
           ELSE BaseInit(order, h, N)
    /\ UNCHANGED <<tables, q, bc, run, nOk, call, ipcs>>

\* SemiImplicitBDF.__init__(flow, dt, order, stabilization)
Construct ==
    /\ phase = "new"
    /\ \E order \in Orders, stab \in StabNames, h \in DtSet, N \in 1..MaxNoise :
        /\ k' = order
        /\ stabilization' = stab
        /\ IF stab \notin ns_stabilization
           THEN /\ phase' = "failed"
                /\ initError' = "ValueError"
                /\ UNCHANGED <<dt, noise, t, noise_idx, eta, u_prev,
                               petsc_solver, startup_solvers>>
           ELSE BaseInit(order, h, N)
    /\ UNCHANGED <<tables, q, bc, run, nOk, call, ipcs>>

(* -------------------------------- step --------------------------------- *)
\* value of a symbolic sum  sum(beta * u_n for beta, u_n in zip(...))  on the
\* history `hist`
RECURSIVE EvalSum(_, _)
EvalSum(terms, hist) ==
    IF terms = <<>> THEN QInt(0)
    ELSE QAdd(QMul(Head(terms)[1], QInt(PyGet(hist, Head(terms)[2]).val)),
              EvalSum(Tail(terms), hist))

\* the slots of the history a symbolic sum reads (Python indices)
SlotsOf(terms) == {terms[j][2] : j \in 1..Len(terms)}

\* flow.update_actuators(control, dt): the actuator dynamics, returning the
\* boundary-condition scale
update_actuators(control, h) == control[1] * h

\* flow.set_control(bc_scale)
set_control(bc_scale) == bc_scale

\* the mutable state step() works on
Cur == [eta |-> eta, bc |-> bc, q |-> q, u_prev |-> u_prev, t |-> t,
        noise_idx |-> noise_idx]

\* variant: the clock advanced at the top of the step, before the solve
ApplyForcing_clockFirst(s, control) ==
    [s EXCEPT !.eta = PyGet(noise, s.noise_idx),
              !.t = @ + dt,
              !.bc = IF control # None THEN control[1] * dt ELSE @]

\* variant: the forcing scale taken from the sample before the cursor
ApplyForcing_previousSample(s, control) ==
    [s EXCEPT !.eta = PyGet(noise, s.noise_idx - 1),
              !.bc = IF control # None THEN control[1] * dt ELSE @]

\* variant: control = None applied as a zero actuation
ApplyForcing_noneAsZero(s, control) ==
    [s EXCEPT !.eta = PyGet(noise, s.noise_idx),
              !.bc = IF control # None THEN control[1] * dt ELSE 0]

\* self.eta.assign(self.noise[self.noise_idx]), then the actuator update
ApplyForcing(s, control) ==
    [s EXCEPT !.eta = PyGet(noise, s.noise_idx),
              !.bc = IF control # None
                     THEN set_control(update_actuators(control, dt)) ELSE @]

ForcingEvents(control) ==
    <<"eta">> \o (IF control # None THEN <<"update_actuators", "set_control">>
                  ELSE <<>>)

\* the sub-solver step() picks for step index iter
UsesSteady(iter) == iter > k - 1
SelectOk(iter) == UsesSteady(iter) \/ PyValid(startup_solvers, iter - 1)
SelectSolver(iter) ==
    IF UsesSteady(iter) THEN petsc_solver ELSE PyGet(startup_solvers, iter - 1)

\* a solve() that returns leaves the new velocity v in flow.q
Solved(s, v) == [s EXCEPT !.q = [val |-> v, src |-> s.noise_idx]]

\* variant: the shift run from the newest slot, u_prev[i + 1].assign(u_prev[i])
RECURSIVE ShiftHistory_ascending(_, _)
ShiftHistory_ascending(hist, is) ==
    IF is = <<>> THEN hist
    ELSE LET i == Head(is)
         IN  ShiftHistory_ascending(PySet(hist, i + 1, PyGet(hist, i)), Tail(is))

\* for i in range(self.k - 1): u_prev[-(i + 1)].assign(u_prev[-(i + 2)])
RECURSIVE ShiftHistory(_, _)
ShiftHistory(hist, is) ==
    IF is = <<>> THEN hist
    ELSE LET i == Head(is)
         IN  ShiftHistory(PySet(hist, -(i + 1), PyGet(hist, -(i + 2))), Tail(is))

\* self.u_prev[0].assign(self.flow.q.subfunctions[0])
StoreNewest(s) == [s EXCEPT !.u_prev = PySet(@, 0, s.q)]

\* variant: the cursor advanced twice in one step
Advance_cursorTwice(s) == [s EXCEPT !.t = @ + dt, !.noise_idx = @ + 2]

\* variant: the clock assigned dt instead of advanced by it
Advance_clockAssigned(s) == [s EXCEPT !.t = dt, !.noise_idx = @ + 1]

\* self.t += self.dt; self.noise_idx += 1
Advance(s) == [s EXCEPT !.t = @ + dt, !.noise_idx = @ + 1]

\* assert self.noise_idx < len(self.noise)
NoiseAssert(s) == s.noise_idx < Len(noise)

\* what a solve() called in state s works with: the forcing scale, the
\* boundary-condition scale, the history, and the clock and cursor at that time
SolveInputs(s) == [eta |-> s.eta, bc |-> s.bc, u_prev |-> s.u_prev, t |-> s.t,
                   noise_idx |-> s.noise_idx]

\* SemiImplicitBDF.step(iter, control) as a function of the state: the state
\* it leaves, how it ends, the events in the order they happened, the order
\* of the sub-solver whose solve() ran (0 when none did) and what that solve
\* worked with.  solved says whether the delegated solve() returns, v is the
\* velocity it then leaves in flow.q
StepResult(iter, control, solved, v) ==
    LET s1 == ApplyForcing(Cur, control)
        ev1 == ForcingEvents(control)
        solver == SelectSolver(iter)
        used == solver.order
        s2 == Solved(s1, v)
        s3 == [s2 EXCEPT !.u_prev = ShiftHistory(@, Range(k - 1))]
        s4 == Advance(StoreNewest(s3))
    IN  IF ~PyValid(noise, noise_idx)
        THEN \* self.noise[self.noise_idx] raises
             [state |-> Cur, outcome |-> "NoiseIndexError", events |-> <<>>,
              used |-> 0, seen |-> NoCall.at_solve]
        ELSE IF ~SelectOk(iter)
        THEN \* self.startup_solvers[iter - 1] raises
             [state |-> s1, outcome |-> "StartupIndexError", events |-> ev1,
              used |-> 0, seen |-> NoCall.at_solve]
        ELSE IF ~solved
        THEN \* solve() raises; step() catches nothing
             [state |-> s1, outcome |-> "LinearSolveError",
              events |-> ev1 \o <<"solve">>, used |-> used,
              seen |-> SolveInputs(s1)]
        ELSE IF ~PyValid(s3.u_prev, 0)
        THEN \* self.u_prev[0] raises
             [state |-> s3, outcome |-> "HistoryIndexError",
              events |-> ev1 \o <<"solve">>, used |-> used,
              seen |-> SolveInputs(s1)]
        ELSE [state |-> s4,
              outcome |-> IF NoiseAssert(s4) THEN "ok" ELSE "AssertionError",
              events |-> ev1 \o <<"solve", "rotate", "t", "noise_idx">>,
              used |-> used, seen |-> SolveInputs(s1)]

StepCall(iter, control, solved, v) ==
    \E r \in {StepResult(iter, control, solved, v)} :
        /\ eta' = r.state.eta
        /\ bc' = r.state.bc
        /\ q' = r.state.q
        /\ u_prev' = r.state.u_prev
        /\ t' = r.state.t
        /\ noise_idx' = r.state.noise_idx
        /\ nOk' = IF r.outcome = "ok" THEN nOk + 1 ELSE nOk
        /\ call' = [iter |-> iter, control |-> control, outcome |-> r.outcome,
                    order |-> r.used, events |-> r.events, pre_t |-> t, pre_idx |-> noise_idx,
                    pre_u_prev |-> u_prev, pre_bc |-> bc,
                    at_solve |-> r.seen]

\* one call of step() by the caller, with any step index and control
Step ==
    /\ phase = "ready"
    /\ \E iter \in 0..MaxIter, control \in Controls :
        /\ \/ \E v \in SolveVals : StepCall(iter, control, TRUE, v)
           \/ StepCall(iter, control, FALSE, InitVal)
        /\ run' = IF iter = run THEN run + 1 ELSE OutOfOrder
    /\ UNCHANGED <<phase, initError, tables, k, stabilization, dt, noise,
                   petsc_solver, startup_solvers, ipcs>>

Next == Construct \/ Step

Spec == Init /\ [][Next]_vars

(* ------------------------- IPCSSolver (ts.py) ------------------------- *)
\* time steps, callback lists and final times a caller may pass
IpcsDtSet == {1, 2, 3}
CallbackLists == {<<>>, <<"cb1">>, <<"cb1", "cb2">>}

\* one thing step() does: a solve with what it reads, the copy of the
\* previous solution, or a callback with the arguments and solver state it sees
LogEntry(op, cb, iter, tt, reads) ==
    [op |-> op, cb |-> cb, iter |-> iter, t |-> tt, reads |-> reads]

\* int(Tf // self.dt)
NumSteps(Tf, h) == Tf \div h

\* IPCSSolver.__init__(flow, dt, callbacks, time_varying_bc)
IpcsInit(h, cbs, tvbc) ==
    [IpcsNew EXCEPT !.pc = "idle", !.dt = h, !.t = 0, !.callbacks = cbs,
                    !.time_varying_bc = tvbc,
                    !.u_n = IpcsNew.u, !.p_n = IpcsNew.p]

\* variant: solve() without the clock reset
IpcsSolveStart_noReset(s, Tf) ==
    [s EXCEPT !.pc = "loop", !.Tf = Tf, !.num_steps = NumSteps(Tf, s.dt),
              !.iter = 0, !.steps = 0, !.log = <<>>]

\* solve(Tf) up to the loop: num_steps = int(Tf // self.dt); self.t = 0
IpcsSolveStart(s, Tf) ==
    [s EXCEPT !.pc = "loop", !.Tf = Tf, !.num_steps = NumSteps(Tf, s.dt),
              !.t = 0, !.iter = 0, !.steps = 0, !.log = <<>>]

\* for cb in self.callbacks: cb(iter, self.t, (self.u, self.p))
RunCallbacks(s, iter) ==
    [j \in 1..Len(s.callbacks) |->
        LogEntry("callback", s.callbacks[j], iter, s.t, <<s.u, s.p, s.u_n, s.p_n>>)]

\* IPCSSolver.step(iter); failAt is the solve that raises (1 predictor,
\* 2 pressure, 3 correction), 0 when all three return
IpcsStep(s, iter, failAt) ==
    LET s1 == [s EXCEPT !.t = @ + s.dt]
        e0 == IF s.time_varying_bc
              THEN <<LogEntry("assemble_A1", "", iter, s1.t, <<>>)>> ELSE <<>>
        e1 == e0 \o <<LogEntry("velocity_predictor", "", iter, s1.t,
                               <<s1.u_n, s1.p_n>>)>>
        s2 == [s1 EXCEPT !.u = <<"u*", iter>>]
        e2 == e1 \o <<LogEntry("pressure_correction", "", iter, s2.t,
                               <<s2.p_n, s2.u>>)>>
        s3 == [s2 EXCEPT !.p = <<"p", iter>>]
        e3 == e2 \o <<LogEntry("velocity_correction", "", iter, s3.t,
                               <<s3.u, s3.p, s3.p_n>>)>>
        s4 == [s3 EXCEPT !.u = <<"u", iter>>]
        s5 == [s4 EXCEPT !.u_n = s4.u, !.p_n = s4.p]
        e5 == e3 \o <<LogEntry("update_previous", "", iter, s5.t,
                               <<s5.u_n, s5.p_n>>)>>
    IN  CASE failAt = 1 -> [s1 EXCEPT !.pc = "raised", !.log = e1]
          [] failAt = 2 -> [s2 EXCEPT !.pc = "raised", !.log = e2]
          [] failAt = 3 -> [s3 EXCEPT !.pc = "raised", !.log = e3]
          [] OTHER -> [s5 EXCEPT !.log = e5 \o RunCallbacks(s5, iter),
                                 !.steps = @ + 1]

IpcsConstruct ==
    /\ ipcs.pc = "new"
    /\ \E h \in IpcsDtSet, cbs \in CallbackLists, tvbc \in BOOLEAN :
        ipcs' = IpcsInit(h, cbs, tvbc)
    /\ UNCHANGED <<phase, initError, tables, k, stabilization, dt, t, noise,
                   noise_idx, eta, u_prev, q, bc, petsc_solver,
                   startup_solvers, run, nOk, call>>

\* a caller calls solve(Tf)
IpcsSolveBegin ==
    /\ ipcs.pc = "idle"
    /\ ipcs.solves < MaxSolves
    /\ \E Tf \in 0..MaxTf : ipcs' = IpcsSolveStart(ipcs, Tf)
    /\ UNCHANGED <<phase, initError, tables, k, stabilization, dt, t, noise,
                   noise_idx, eta, u_prev, q, bc, petsc_solver,
                   startup_solvers, run, nOk, call>>

\* one pass of  for iter in range(num_steps): self.step(iter)
IpcsLoopStep ==
    /\ ipcs.pc = "loop"
    /\ ipcs.iter < ipcs.num_steps
    /\ \E failAt \in 0..3 :
        ipcs' = [IpcsStep(ipcs, ipcs.iter, failAt) EXCEPT !.iter = @ + 1]
    /\ UNCHANGED <<phase, initError, tables, k, stabilization, dt, t, noise,
                   noise_idx, eta, u_prev, q, bc, petsc_solver,
                   startup_solvers, run, nOk, call>>

\* the loop is exhausted and solve() returns
IpcsSolveReturn ==
    /\ ipcs.pc = "loop"
    /\ ipcs.iter >= ipcs.num_steps
    /\ ipcs' = [ipcs EXCEPT !.pc = "idle", !.solves = @ + 1]
    /\ UNCHANGED <<phase, initError, tables, k, stabilization, dt, t, noise,
                   noise_idx, eta, u_prev, q, bc, petsc_solver,
                   startup_solvers, run, nOk, call>>

IpcsNext == IpcsConstruct \/ IpcsSolveBegin \/ IpcsLoopStep \/ IpcsSolveReturn

SpecIPCS == Init /\ [][IpcsNext]_vars

(* ------------------------------ properties ----------------------------- *)
Min(a, b) == IF a < b THEN a ELSE b
Has(events, e) == \E j \in 1..Len(events) : events[j] = e
Count(events, e) == Cardinality({j \in 1..Len(events) : events[j] = e})

\* a controller built with a supported order
Ready == phase = "ready" /\ k \in 1..3
\* the last call got past the noise read
Stepped == call.outcome \notin {"none", "NoiseIndexError"}
\* the last call ended with the noise schedule reported as exhausted
NoiseExhausted == call.outcome \in {"AssertionError", "NoiseIndexError"}
\* the caller has passed iter = 0, 1, 2, ... and every call before the last
\* one returned normally
CleanRun == run >= 1 /\ nOk >= run - 1
\* the sub-solver built for order o
AllSolvers == {petsc_solver} \cup {startup_solvers[j] : j \in 1..Len(startup_solvers)}
SolverOfOrder(o) == CHOOSE s \in AllSolvers : s.order = o

\* C1: for every order k in 1..3 and every 0-based step index n, the step
\* with index n invokes exactly the sub-solver of order min(n + 1, k).
C1_StartupPolicy ==
    (Ready /\ Stepped) => call.order = Min(call.iter + 1, k)

\* C2: with a noise schedule of length N the first step to fail with the
\* noise-exhausted error is the (N+1)-th one: N samples have been drawn by
\* earlier steps when it fails, never fewer.
C2_ExhaustedOnlyAfterN ==
    (Ready /\ NoiseExhausted) => call.pre_idx = Len(noise)

\* C3: k = 2, five noise samples, steps 0..4 without control: all five
\* return, step 0 with the order-1 solver and steps 1..4 with the order-2
\* solver; the sixth step raises the noise-exhausted error before any solve.
C3_EndToEnd ==
    (phase = "ready" /\ k = 2 /\ Len(noise) = 5 /\ CleanRun /\ bc = 0
        /\ call.outcome # "LinearSolveError")
    => /\ run <= 5 => /\ call.outcome = "ok"
                      /\ call.order = (IF call.iter = 0 THEN 1 ELSE 2)
       /\ run = 6 => NoiseExhausted /\ ~Has(call.events, "solve")

\* C4: when the delegated solve() raises, the clock, the noise cursor and
\* every slot of the history are as they were before the step began, and the
\* step made that one solve() only (no retry, no other order).
C4_SolveFailureAtomic ==
    (Ready /\ call.outcome = "LinearSolveError")
    => /\ t = call.pre_t
       /\ noise_idx = call.pre_idx
       /\ u_prev = call.pre_u_prev
       /\ Count(call.events, "solve") = 1
       /\ call.events[Len(call.events)] = "solve"

C4_Witness ==
    /\ Ready /\ k = 3 /\ CleanRun
    /\ call.outcome = "LinearSolveError" /\ call.iter = 3
    /\ call.pre_idx = 3 /\ call.pre_t = 3 * dt
    /\ \A i \in 1..3 : call.pre_u_prev[i].src # Seed

\* C5: whenever step() ends with an error of any kind, the history and the
\* clock are as they were before that step began.
C5_AtomicCommit ==
    (Ready /\ call.outcome \notin {"none", "ok"})
    => (u_prev = call.pre_u_prev /\ t = call.pre_t)

\* C6: the history always has exactly k slots; a step that returns puts the
\* velocity it solved in slot 0 and moves every older entry one slot back,
\* dropping the oldest; after n such steps slot i < min(n, k) holds the
\* velocity solved at step n-1-i (for k = 3, seed x then y gives [y, x, x]).
C6_HistoryRotation ==
    Ready =>
       /\ Len(u_prev) = k
       /\ call.outcome = "ok" =>
            /\ u_prev[1] = q
            /\ q.src = call.pre_idx
            /\ \A i \in 2..k : u_prev[i] = call.pre_u_prev[i - 1]
            /\ \A i \in 0..(Min(nOk, k) - 1) : u_prev[i + 1].src = nOk - 1 - i
            /\ \A i \in Min(nOk, k)..(k - 1) : u_prev[i + 1].src = Seed

C6_Witness ==
    /\ Ready /\ k = 3 /\ call.outcome = "ok" /\ nOk = 4
    /\ u_prev[1].val # u_prev[2].val /\ u_prev[2].val = u_prev[3].val

\* C7: in a run stepped with 0, 1, 2, ... the solver invoked at step n has
\* order o <= n + 1 and reads only slots 0..o-1 that hold the initial state
\* (slot 0 at step 0) or velocities solved by earlier steps at distinct
\* times, never an unrotated copy of the seed.
C7_NoSeedCopyRead ==
    (Ready /\ CleanRun /\ Has(call.events, "solve"))
    => LET reads == SlotsOf(SolverOfOrder(call.order).w)
                      \cup SlotsOf(SolverOfOrder(call.order).u_BDF)
           h == call.pre_u_prev
       IN  /\ call.order <= call.iter + 1
           /\ \A i \in reads : i = 0 \/ h[i + 1].src # Seed
           /\ \A i, j \in reads : i # j => h[i + 1].src # h[j + 1].src

\* C8: constructing a controller with an order outside 1..3 fails at
\* construction, and no such order is given the coefficients of another one.
C8_UnsupportedOrderRejected ==
    (phase # "new" /\ k \notin 1..3) => (phase = "failed" /\ petsc_solver = NoSolver)

\* the literal coefficients of BDF1..3 and EXT1..3, as <<numerator, denominator>>
C9_alpha == << <<1, 1>>, <<3, 2>>, <<11, 6>> >>
C9_beta_BDF == << << <<1, 1>> >>,
                  << <<2, 1>>, <<-1, 2>> >>,
                  << <<3, 1>>, <<-3, 2>>, <<1, 3>> >> >>
C9_beta_EXT == << << <<1, 1>> >>,
                  << <<2, 1>>, <<-1, 1>> >>,
                  << <<3, 1>>, <<-3, 1>>, <<1, 1>> >> >>

\* C9: the tables hold the BDF1..3 / EXT1..3 coefficients, each beta row of
\* order o has length o, every built sub-solver carries the coefficients of
\* its order, and neither construction nor any step changes the tables.
C9_CoefficientTables ==
    /\ tables.alpha_BDF = C9_alpha
    /\ tables.beta_BDF = C9_beta_BDF
    /\ tables.beta_EXT = C9_beta_EXT
    /\ \A o \in 1..3 : Len(tables.beta_BDF[o]) = o /\ Len(tables.beta_EXT[o]) = o
    /\ Ready => \A o \in 1..k :
         LET s == SolverOfOrder(o)
         IN  /\ s.alpha = C9_alpha[o]
             /\ [j \in 1..Len(s.u_BDF) |-> s.u_BDF[j][1]] = C9_beta_BDF[o]
             /\ [j \in 1..Len(s.w) |-> s.w[j][1]] = C9_beta_EXT[o]

C9_Witness == Ready /\ k = 3 /\ nOk >= 3 /\ Len(startup_solvers) = 2

\* the extrapolation and the BDF combination of order o written out on history h
C10_Wind(o, h) ==
    CASE o = 1 -> <<h[1].val, 1>>
      [] o = 2 -> <<2 * h[1].val - h[2].val, 1>>
      [] o = 3 -> <<3 * h[1].val - 3 * h[2].val + h[3].val, 1>>
C10_BDF(o, h) ==
    CASE o = 1 -> <<h[1].val, 1>>
      [] o = 2 -> Q(4 * h[1].val - h[2].val, 2)
      [] o = 3 -> Q(18 * h[1].val - 9 * h[2].val + 2 * h[3].val, 6)

\* C10: the wind of the order-o sub-solver is sum_{i<o} beta_EXT(o)[i] *
\* history[i] and its BDF estimate sum_{i<o} beta_BDF(o)[i] * history[i],
\* over the o most recent entries only (wind(2) on [y, x, x] is 2y - x);
\* a solve that evaluates them and raises leaves every slot as it was.
C10_WindAndEstimate ==
    Ready =>
       /\ \A o \in 1..k :
            LET s == SolverOfOrder(o)
            IN  /\ SlotsOf(s.w) = 0..(o - 1)
                /\ SlotsOf(s.u_BDF) = 0..(o - 1)
                /\ EvalSum(s.w, u_prev) = C10_Wind(o, u_prev)
                /\ EvalSum(s.u_BDF, u_prev) = C10_BDF(o, u_prev)
       /\ (Has(call.events, "solve") /\ ~Has(call.events, "rotate"))
            => u_prev = call.pre_u_prev

C10_Witness ==
    /\ Ready /\ k = 3
    /\ u_prev[1].val = 2 /\ u_prev[2].val = 1 /\ u_prev[3].val = 1
    /\ u_prev[2].src # u_prev[3].src
    /\ call.outcome = "LinearSolveError" /\ call.order = 2

\* C11: over a run stepped with 0, 1, 2, ... the orders of the sub-solvers
\* invoked never decrease, and once a step has used the order-k solver every
\* later step uses it too.
C11_OneWayRamp ==
    [][(Ready /\ run >= 1 /\ run' = run + 1 /\ call.order > 0 /\ call'.order > 0)
        => /\ call'.order >= call.order
           /\ call.order = k => call'.order = k]_vars

\* C12: in every reachable state, also after a failed step and further
\* attempts, 0 <= noise_idx <= len(noise); a step never leaves the cursor
\* below where it found it, and a step that draws a sample draws the one at
\* an index below len(noise).
C12_CursorInRange ==
    phase = "ready" =>
       /\ 0 <= noise_idx /\ noise_idx <= Len(noise)
       /\ call.outcome # "none" => noise_idx >= call.pre_idx
       /\ Has(call.events, "eta") =>
            /\ 0 <= call.pre_idx /\ call.pre_idx < Len(noise)
            /\ eta = noise[call.pre_idx + 1]

C12_Witness ==
    /\ Ready /\ Len(noise) = 3 /\ noise_idx = Len(noise) /\ nOk = 2
    /\ call.outcome = "NoiseIndexError" /\ call.pre_idx = Len(noise)

\* C13: an unrecognized stabilization name makes the constructor raise
\* before the base initialization: no sub-solver is built, no history is
\* seeded, no step is taken; a recognized name never raises that error.
C13_StabilizationFailsFast ==
    phase # "new" =>
       /\ stabilization \notin ns_stabilization =>
            /\ phase = "failed" /\ initError = "ValueError"
            /\ petsc_solver = NoSolver /\ startup_solvers = <<>>
            /\ u_prev = <<>> /\ noise = <<>>
            /\ call = NoCall
       /\ stabilization \in ns_stabilization => initError # "ValueError"

C13_Witness ==
    /\ phase = "failed" /\ initError = "ValueError"
    /\ stabilization = "bogus" /\ k = 3

\* C14: in every step that returns, the events are, in this order and once
\* each: the noise sample applied, the actuator update and set_control when a
\* control is given, one solve(), the history rotation, the clock and cursor
\* advance; the solve works with the sample and control of its own step and
\* with the history, clock and cursor the previous step left.
C14_StepOrdering ==
    (phase = "ready" /\ call.outcome = "ok") =>
       /\ call.events =
            <<"eta">>
            \o (IF call.control # None THEN <<"update_actuators", "set_control">>
                ELSE <<>>)
            \o <<"solve", "rotate", "t", "noise_idx">>
       /\ call.at_solve.eta = noise[call.pre_idx + 1]
       /\ call.at_solve.bc = (IF call.control # None THEN call.control[1] * dt
                              ELSE call.pre_bc)
       /\ call.at_solve.u_prev = call.pre_u_prev
       /\ call.at_solve.t = call.pre_t
       /\ call.at_solve.noise_idx = call.pre_idx
       /\ u_prev[1] = q
       /\ t = call.pre_t + dt
       /\ noise_idx = call.pre_idx + 1

C14_Witness ==
    /\ Ready /\ k = 3 /\ call.outcome = "ok" /\ call.control # None
    /\ call.pre_idx = 2 /\ call.order = 2 /\ call.pre_bc = 0

\* C15: a step called with control = None leaves the flow's actuator /
\* boundary-condition state as it was and calls neither update_actuators nor
\* set_control; with a control, each is called once, before the solve, and
\* the solve works with the new scale; history, clock and cursor change the
\* same way with and without a control.
C15_ControlOptional ==
    (phase = "ready" /\ Stepped) =>
       /\ call.control = None =>
            /\ bc = call.pre_bc
            /\ ~Has(call.events, "update_actuators")
            /\ ~Has(call.events, "set_control")
       /\ call.control # None =>
            /\ Count(call.events, "update_actuators") = 1
            /\ Count(call.events, "set_control") = 1
            /\ call.events[2] = "update_actuators"
            /\ call.events[3] = "set_control"
            /\ bc = call.control[1] * dt
            /\ Has(call.events, "solve") =>
                 /\ call.at_solve.bc = bc
                 /\ call.events[4] = "solve"
       /\ IF call.outcome \in {"ok", "AssertionError"}
          THEN /\ t = call.pre_t + dt
               /\ noise_idx = call.pre_idx + 1
               /\ u_prev = <<q>> \o SubSeq(call.pre_u_prev, 1, Len(call.pre_u_prev) - 1)
          ELSE /\ t = call.pre_t
               /\ noise_idx = call.pre_idx
               /\ u_prev = call.pre_u_prev

C15_Witness ==
    /\ Ready /\ call.outcome = "ok" /\ call.control = None
    /\ call.pre_bc # 0 /\ bc = call.pre_bc /\ nOk >= 2

\* C16: right after the n-th step that returns, the cursor is n and the clock
\* n * dt; that step drew the sample at index n - 1 and moved the clock by
\* one dt, whatever iter the caller passed and whichever sub-solver ran.
C16_ClockCursorLockstep ==
    (phase = "ready" /\ call.outcome = "ok") =>
       /\ noise_idx = nOk
       /\ t = nOk * dt
       /\ call.pre_idx = nOk - 1
       /\ call.at_solve.eta = noise[nOk]
       /\ t = call.pre_t + dt
       /\ noise_idx = call.pre_idx + 1

C16_Witness ==
    /\ Ready /\ k = 3 /\ call.outcome = "ok" /\ nOk = 3
    /\ run = OutOfOrder /\ call.iter = 0 /\ dt = 2


\* the operations of one returned IPCS step, in the order the claim states
IpcsExpectedOps(s) ==
    (IF s.time_varying_bc THEN <<"assemble_A1">> ELSE <<>>)
    \o <<"velocity_predictor", "pressure_correction", "velocity_correction",
         "update_previous">>
    \o [j \in 1..Len(s.callbacks) |-> "callback"]

\* a step of the running or finished solve() has returned
IpcsStepReturned == ipcs.pc \in {"loop", "idle"} /\ ipcs.steps >= 1

\* C17: solve(Tf) resets the clock to 0 and runs exactly floor(Tf / dt) steps
\* with iter = 0, 1, ..., num_steps-1 in increasing order; each step runs the
\* velocity predictor, the pressure correction and the velocity correction in
\* that order, then updates u_n and p_n, and only then calls every registered
\* callback once, in registration order, with that iter and with the clock
\* already at (iter+1)*dt; after solve returns the clock is num_steps*dt.
C17_SolveLoop ==
    /\ ipcs.pc \in {"loop", "idle"} =>
        /\ ipcs.num_steps * ipcs.dt <= ipcs.Tf
        /\ ipcs.Tf < (ipcs.num_steps + 1) * ipcs.dt
        /\ ipcs.steps = ipcs.iter
        /\ ipcs.iter <= ipcs.num_steps
        /\ ipcs.t = ipcs.steps * ipcs.dt
    /\ (ipcs.pc = "idle" /\ ipcs.solves >= 1) =>
        /\ ipcs.steps = ipcs.num_steps
        /\ ipcs.t = ipcs.num_steps * ipcs.dt
    /\ IpcsStepReturned =>
        LET ops == IpcsExpectedOps(ipcs)
            first == Len(ops) - Len(ipcs.callbacks)
        IN  /\ Len(ipcs.log) = Len(ops)
            /\ \A j \in 1..Len(ops) :
                /\ ipcs.log[j].op = ops[j]
                /\ ipcs.log[j].iter = ipcs.iter - 1
                /\ ipcs.log[j].t = ipcs.iter * ipcs.dt
            /\ \A j \in 1..Len(ipcs.callbacks) :
                /\ ipcs.log[first + j].cb = ipcs.callbacks[j]
                /\ ipcs.log[first + j].reads =
                       <<<<"u", ipcs.iter - 1>>, <<"p", ipcs.iter - 1>>,
                         <<"u", ipcs.iter - 1>>, <<"p", ipcs.iter - 1>>>>

\* a second solve() has returned after at least two steps, with two callbacks
\* registered and the first solve having left the clock non-zero
C17_Witness ==
    /\ ipcs.pc = "idle"
    /\ ipcs.solves = 2
    /\ ipcs.num_steps >= 2
    /\ ipcs.steps = ipcs.num_steps
    /\ Len(ipcs.callbacks) = 2
    /\ ipcs.t = ipcs.num_steps * ipcs.dt
    /\ ipcs.Tf > ipcs.t

====
